---- MODULE Spec2Model ----
(***************************************************************************)
(* A model of secure-asset-api: the RTDB-backed asset store                *)
(* (src/src/models/asset.model.js), the GitHub client                      *)
(* (src/src/services/github.service.js) and the upload-and-register        *)
(* handler (src/src/controllers/assets.controller.js).                     *)
(*                                                                         *)
(* JavaScript values are modelled as strings: "undefined" is a missing     *)
(* key, "null" is null, "true"/"false" are the booleans, "1"/"0" numbers,  *)
(* "'true'"/"'1'" the strings 'true' and '1'.  An object is a function     *)
(* from RawKeys to values; the object with every key missing stands for    *)
(* null / an absent RTDB node (RTDB keeps no node without children).       *)
(***************************************************************************)
EXTENDS Integers, Sequences, FiniteSets, TLC

VARIABLES
  assets,   \* RTDB /assets/{id}: the stored object, NoAsset when absent
  slugs,    \* RTDB /slugs/{slug}: the id it holds, Null when absent
  now,      \* the clock: index of the last stamp handed out
  pc,       \* per request: the await it is suspended at
  call,     \* per request: the operation and its arguments
  cur,      \* per request: the local `cur` / `data` / `asset`
  ret,      \* per request: what the store call returned or threw
  pre,      \* per request: /assets and /slugs as they were when the call began
  req,      \* per request: the multipart request of uploadGithubRegister
  tmp,      \* per request: the temporary local copy multer wrote exists
  resp,     \* per request: the HTTP response sent
  github,   \* the repository: size and the blob sha of the path on each branch
  sent      \* per request: the GitHub API requests issued, in order

vars == <<assets, slugs, now, pc, call, cur, ret, pre, req, tmp, resp, github, sent>>
uploadVars == <<req, tmp, resp, github, sent>>

\* ------------------------------------------------------------------ bounds
MaxClock == 4

\* ------------------------------------------------------------------ values
Null == "null"
Undef == "undefined"

Procs == {"p1", "p2"}
Ids == {"a", "b"}
IdOrder == <<"a", "b">>
Slugs == {"s1", "s2"}

Stamps == <<"T1", "T2", "T3", "T4", "T5", "T6", "T7", "T8", "T9">>
Stamp(n) == Stamps[n]

Fields ==
  {"id", "label", "slug", "filename", "disk", "path", "repo", "branch", "mime",
   "size", "sha256", "verify_hash", "disposition", "visibility", "github_url",
   "cdn_url", "created_at", "updated_at", "deleted_at"}
RawKeys == Fields \cup {"unknown"}

NoAsset == [k \in RawKeys |-> Undef]

Nullish(v) == v \in {Undef, Null}
Falsy(v) == v \in {Undef, Null, "", "false", "0"}
Truthy(v) == ~Falsy(v)

\* a ?? b   and   a || b
Coalesce(a, b) == IF Nullish(a) THEN b ELSE a
OrElse(a, b) == IF Falsy(a) THEN b ELSE a

toBool(v) == IF v \in {"true", "'true'", "1", "'1'"} THEN "true" ELSE "false"

normalizeAsset(a) ==
  IF a = NoAsset THEN NoAsset
  ELSE [id |-> a.id,
        label |-> a.label,
        slug |-> a.slug,
        filename |-> a.filename,
        disk |-> a.disk,
        path |-> a.path,
        repo |-> Coalesce(a.repo, Null),
        branch |-> Coalesce(a.branch, Null),
        mime |-> Coalesce(a.mime, Null),
        size |-> Coalesce(a.size, Null),
        sha256 |-> Coalesce(a.sha256, Null),
        verify_hash |-> toBool(a.verify_hash),
        disposition |-> OrElse(a.disposition, "inline"),
        visibility |-> OrElse(a.visibility, "public"),
        github_url |-> Coalesce(a.github_url, Null),
        cdn_url |-> Coalesce(a.cdn_url, Null),
        created_at |-> a.created_at,
        updated_at |-> Coalesce(a.updated_at, Null),
        deleted_at |-> Coalesce(a.deleted_at, Null),
        unknown |-> Undef]

\* { ...a, ...b }
Spread(a, b) == [k \in RawKeys |-> IF b[k] = Undef THEN a[k] ELSE b[k]]

\* What RTDB keeps of a value written with set(): null children are not stored.
RtdbValue(d) == [k \in RawKeys |-> IF d[k] = Null THEN Undef ELSE d[k]]

\* ------------------------------------------------------------------ clock
\* dayjs().toISOString(): every read of the clock gives a later stamp.  The
\* clock is capped: a step that stamps a record is disabled at MaxClock.
Ticks == {t \in {now + 1} : t <= MaxClock}

\* ------------------------------------------------------------------ RTDB helpers
getAssetById(id) == normalizeAsset(assets[id])

setAsset(as, id, data) == [as EXCEPT ![id] = RtdbValue(data)]

\* Faulty variant: the slug entry written with a plain set(), whatever is there
reserveSlugUnchecked(sl, slug, id) == [committed |-> TRUE, slugs |-> [sl EXCEPT ![slug] = id]]

\* ref.transaction(current => current === null ? { id } : undefined)
reserveSlug(sl, slug, id) ==
  IF sl[slug] = Null
  THEN [committed |-> TRUE, slugs |-> [sl EXCEPT ![slug] = id]]
  ELSE [committed |-> FALSE, slugs |-> sl]

\* Faulty variant: the reservation is never removed
releaseSlugSkipped(sl, slug) == sl

releaseSlug(sl, slug) == [sl EXCEPT ![slug] = Null]

getIdBySlug(slug) == OrElse(slugs[slug], Null)

\* ------------------------------------------------------------------ results
Pending == [code |-> "pending", val |-> NoAsset]
Returns(c, v) == [code |-> c, val |-> v]
Throws(c) == [code |-> c, val |-> NoAsset]

NoCall == [op |-> "none", id |-> Null, arg |-> NoAsset]
NoPre == [assets |-> [i \in Ids |-> NoAsset], slugs |-> [s \in Slugs |-> Null]]
Snapshot == [assets |-> assets, slugs |-> slugs]

Begin(p, op, id, arg) ==
  /\ pc[p] = "idle"
  /\ call' = [call EXCEPT ![p] = [op |-> op, id |-> id, arg |-> arg]]
  /\ pre' = [pre EXCEPT ![p] = Snapshot]

\* ------------------------------------------------------------------ insertAsset
insertData(asset, t) ==
  normalizeAsset(Spread(asset,
    [NoAsset EXCEPT !["created_at"] = t, !["updated_at"] = Null, !["deleted_at"] = Null]))

\* Where a finished insertAsset resumes: its caller is the upload handler or
\* the register handler or the caller of the store.
Resume(op) ==
  IF op = "uploadGithubRegister" THEN "up_respond"
  ELSE IF op = "registerExisting" THEN "reg_respond" ELSE "done"

\* now, data, await reserveSlug(data.slug, data.id)
insertReserve(p, asset, op) ==
  /\ \E t \in Ticks :
       LET data == insertData(asset, Stamp(t))
           res == reserveSlug(slugs, data.slug, data.id)
       IN /\ now' = t
          /\ cur' = [cur EXCEPT ![p] = data]
          /\ slugs' = res.slugs
          /\ IF res.committed
             THEN /\ pc' = [pc EXCEPT ![p] = "ins_set"]
                  /\ ret' = [ret EXCEPT ![p] = Pending]
             ELSE /\ pc' = [pc EXCEPT ![p] = Resume(op)]
                  /\ ret' = [ret EXCEPT ![p] = Throws("SLUG_EXISTS")]
  /\ UNCHANGED assets

InsertAsset(p, asset) ==
  /\ Begin(p, "insertAsset", asset.id, asset)
  /\ insertReserve(p, asset, "insertAsset")
  /\ UNCHANGED uploadVars

\* await setAsset(data.id, data); return data
InsSetOk(p) ==
  /\ pc[p] = "ins_set"
  /\ assets' = setAsset(assets, cur[p].id, cur[p])
  /\ pc' = [pc EXCEPT ![p] = Resume(call[p].op)]
  /\ ret' = [ret EXCEPT ![p] = Returns("asset", cur[p])]
  /\ UNCHANGED <<slugs, now, call, cur, pre>>
  /\ UNCHANGED uploadVars

\* await setAsset(data.id, data) throws: on to the catch block
InsSetFails(p) ==
  /\ pc[p] = "ins_set"
  /\ pc' = [pc EXCEPT ![p] = "ins_release"]
  /\ UNCHANGED <<assets, slugs, now, call, cur, ret, pre>>
  /\ UNCHANGED uploadVars

InsSet(p) == InsSetOk(p) \/ InsSetFails(p)

\* catch (e) { await releaseSlug(data.slug); throw e; }
InsRelease(p) ==
  /\ pc[p] = "ins_release"
  /\ slugs' = releaseSlug(slugs, cur[p].slug)
  /\ pc' = [pc EXCEPT ![p] = Resume(call[p].op)]
  /\ ret' = [ret EXCEPT ![p] = Throws("WRITE_FAILED")]
  /\ UNCHANGED <<assets, now, call, cur, pre>>
  /\ UNCHANGED uploadVars

\* ------------------------------------------------------------------ updateAsset
\* Faulty variant: a new slug is written without re-indexing
slugChangeIgnored(c, patch) == FALSE

slugChange(c, patch) == Truthy(patch.slug) /\ patch.slug # c.slug

updatedAsset(c, patch, t) ==
  normalizeAsset(Spread(Spread(c, patch),
    [NoAsset EXCEPT !["verify_hash"] = Coalesce(patch.verify_hash, c.verify_hash),
                    !["updated_at"] = t]))

\* const cur = await getAssetById(id); if (!cur || cur.deleted_at) return null;
UpdateAsset(p, id, patch) ==
  LET c == getAssetById(id)
  IN /\ Begin(p, "updateAsset", id, patch)
     /\ cur' = [cur EXCEPT ![p] = c]
     /\ IF c = NoAsset \/ Truthy(c.deleted_at)
        THEN /\ pc' = [pc EXCEPT ![p] = "done"]
             /\ ret' = [ret EXCEPT ![p] = Returns("null", NoAsset)]
        ELSE /\ pc' = [pc EXCEPT ![p] =
                         IF slugChange(c, patch) THEN "upd_reserve" ELSE "upd_set"]
             /\ ret' = [ret EXCEPT ![p] = Pending]
     /\ UNCHANGED <<assets, slugs, now>>
     /\ UNCHANGED uploadVars

\* const ok = await reserveSlug(patch.slug, id); if (!ok) throw SLUG_EXISTS
UpdReserve(p) ==
  LET res == reserveSlug(slugs, call[p].arg.slug, call[p].id)
  IN /\ pc[p] = "upd_reserve"
     /\ slugs' = res.slugs
     /\ IF res.committed
        THEN /\ pc' = [pc EXCEPT ![p] = "upd_release"]
             /\ UNCHANGED ret
        ELSE /\ pc' = [pc EXCEPT ![p] = "done"]
             /\ ret' = [ret EXCEPT ![p] = Throws("SLUG_EXISTS")]
     /\ UNCHANGED <<assets, now, call, cur, pre>>
  /\ UNCHANGED uploadVars

\* await releaseSlug(cur.slug)
UpdRelease(p) ==
  /\ pc[p] = "upd_release"
  /\ slugs' = releaseSlug(slugs, cur[p].slug)
  /\ pc' = [pc EXCEPT ![p] = "upd_set"]
  /\ UNCHANGED <<assets, now, call, cur, ret, pre>>
  /\ UNCHANGED uploadVars

\* updated = normalizeAsset({...}); await setAsset(id, updated); return updated
UpdSet(p) ==
  /\ pc[p] = "upd_set"
  /\ \E t \in Ticks :
       LET updated == updatedAsset(cur[p], call[p].arg, Stamp(t))
       IN /\ now' = t
          /\ \/ /\ assets' = setAsset(assets, call[p].id, updated)
                /\ ret' = [ret EXCEPT ![p] = Returns("asset", updated)]
             \/ /\ ret' = [ret EXCEPT ![p] = Throws("WRITE_FAILED")]
                /\ UNCHANGED assets
  /\ pc' = [pc EXCEPT ![p] = "done"]
  /\ UNCHANGED <<slugs, call, cur, pre>>
  /\ UNCHANGED uploadVars

\* ------------------------------------------------------------------ softDeleteAsset / restoreAsset
softDeleted(c, t) == [c EXCEPT !["deleted_at"] = t]
restored(c) == [c EXCEPT !["deleted_at"] = Null]

\* Faulty variant: an asset already soft-deleted is stamped again
SoftDeleteAssetAgain(p, id) ==
  LET c == getAssetById(id)
  IN /\ Begin(p, "softDeleteAsset", id, NoAsset)
     /\ cur' = [cur EXCEPT ![p] = c]
     /\ IF c = NoAsset
        THEN /\ pc' = [pc EXCEPT ![p] = "done"]
             /\ ret' = [ret EXCEPT ![p] = Returns("false", NoAsset)]
        ELSE /\ pc' = [pc EXCEPT ![p] = "del_set"]
             /\ ret' = [ret EXCEPT ![p] = Pending]
     /\ UNCHANGED <<assets, slugs, now>>
     /\ UNCHANGED uploadVars

\* const cur = await getAssetById(id); if (!cur || cur.deleted_at) return false;
SoftDeleteAsset(p, id) ==
  LET c == getAssetById(id)
  IN /\ Begin(p, "softDeleteAsset", id, NoAsset)
     /\ cur' = [cur EXCEPT ![p] = c]
     /\ IF c = NoAsset \/ Truthy(c.deleted_at)
        THEN /\ pc' = [pc EXCEPT ![p] = "done"]
             /\ ret' = [ret EXCEPT ![p] = Returns("false", NoAsset)]
        ELSE /\ pc' = [pc EXCEPT ![p] = "del_set"]
             /\ ret' = [ret EXCEPT ![p] = Pending]
     /\ UNCHANGED <<assets, slugs, now>>
     /\ UNCHANGED uploadVars

\* cur.deleted_at = now; await setAsset(id, cur); return true
DelSet(p) ==
  /\ pc[p] = "del_set"
  /\ \E t \in Ticks :
       /\ now' = t
       /\ \/ /\ assets' = setAsset(assets, call[p].id, softDeleted(cur[p], Stamp(t)))
             /\ ret' = [ret EXCEPT ![p] = Returns("true", NoAsset)]
          \/ /\ ret' = [ret EXCEPT ![p] = Throws("WRITE_FAILED")]
             /\ UNCHANGED assets
  /\ pc' = [pc EXCEPT ![p] = "done"]
  /\ UNCHANGED <<slugs, call, cur, pre>>
  /\ UNCHANGED uploadVars

\* const cur = await getAssetById(id); if (!cur || !cur.deleted_at) return false;
RestoreAsset(p, id) ==
  LET c == getAssetById(id)
  IN /\ Begin(p, "restoreAsset", id, NoAsset)
     /\ cur' = [cur EXCEPT ![p] = c]
     /\ IF c = NoAsset \/ Falsy(c.deleted_at)
        THEN /\ pc' = [pc EXCEPT ![p] = "done"]
             /\ ret' = [ret EXCEPT ![p] = Returns("false", NoAsset)]
        ELSE /\ pc' = [pc EXCEPT ![p] = "res_set"]
             /\ ret' = [ret EXCEPT ![p] = Pending]
     /\ UNCHANGED <<assets, slugs, now>>
     /\ UNCHANGED uploadVars

\* cur.deleted_at = null; await setAsset(id, cur); return true
ResSet(p) ==
  /\ pc[p] = "res_set"
  /\ \/ /\ assets' = setAsset(assets, call[p].id, restored(cur[p]))
        /\ ret' = [ret EXCEPT ![p] = Returns("true", NoAsset)]
     \/ /\ ret' = [ret EXCEPT ![p] = Throws("WRITE_FAILED")]
        /\ UNCHANGED assets
  /\ pc' = [pc EXCEPT ![p] = "done"]
  /\ UNCHANGED <<slugs, now, call, cur, pre>>
  /\ UNCHANGED uploadVars

\* ------------------------------------------------------------------ queries
\* String.prototype.toLowerCase / includes / localeCompare on the strings of the
\* model.  The stamps stand for ISO-8601 strings, which collate before letters.
toLowerCase(v) == IF v = "Logo" THEN "logo" ELSE IF v = "LOGO" THEN "logo" ELSE v
ProperSubstrings == {<<"logo2", "logo">>, <<"logo", "go">>, <<"logo2", "go">>, <<"f.png", "png">>}
includes(h, n) == n = "" \/ h = n \/ <<h, n>> \in ProperSubstrings
Collation ==
  <<"", "T0", "T1", "T2", "T3", "T4", "T5", "T6", "T7", "T8", "T9", "f.png", "github",
    "logo", "Logo", "logo2", "private", "public", "remote", "s1", "s2">>
Rank(v) == CHOOSE i \in 1..Len(Collation) : Collation[i] = v
localeCompare(a, b) == IF Rank(a) < Rank(b) THEN -1 ELSE IF Rank(a) > Rank(b) THEN 1 ELSE 0

Min(a, b) == IF a < b THEN a ELSE b
Max(a, b) == IF a > b THEN a ELSE b
slice(list, start, end) == SubSeq(list, start + 1, Min(end, Len(list)))

\* Array.prototype.sort with comparator dir * a[key].localeCompare(b[key]): stable.
RECURSIVE insertSorted(_, _, _, _)
insertSorted(sorted, x, key, dir) ==
  IF sorted = <<>> THEN <<x>>
  ELSE LET last == sorted[Len(sorted)]
       IN IF dir * localeCompare(Coalesce(last[key], ""), Coalesce(x[key], "")) <= 0
          THEN Append(sorted, x)
          ELSE Append(insertSorted(SubSeq(sorted, 1, Len(sorted) - 1), x, key, dir), last)
RECURSIVE sortBy(_, _, _)
sortBy(list, key, dir) ==
  IF list = <<>> THEN <<>>
  ELSE insertSorted(sortBy(SubSeq(list, 1, Len(list) - 1), key, dir), list[Len(list)], key, dir)

\* Object.values(snap.val() || {}).map(normalizeAsset): RTDB orders children by key
fetchAllAssetsRaw ==
  LET all == [n \in 1..Len(IdOrder) |-> getAssetById(IdOrder[n])]
      present(a) == a # NoAsset
  IN SelectSeq(all, present)

labelMatches(a, label) ==
  Falsy(label) \/ (~Nullish(a.label) /\ includes(toLowerCase(a.label), toLowerCase(label)))
textMatches(a, q) ==
  Falsy(q) \/ (~Nullish(a.label) /\ includes(toLowerCase(a.label), toLowerCase(q)))
           \/ (~Nullish(a.slug) /\ includes(toLowerCase(a.slug), toLowerCase(q)))
           \/ (~Nullish(a.filename) /\ includes(toLowerCase(a.filename), toLowerCase(q)))
diskMatches(a, disk) == Falsy(disk) \/ a.disk = disk
visibilityMatches(a, visibility) == Falsy(visibility) \/ a.visibility = visibility

clampLimit(limit) == Max(1, Min(100, limit))

\* Faulty variant: the deleted_at check is left out
findBySlugAnyState(slug) ==
  LET id == getIdBySlug(slug)
  IN IF Falsy(id) THEN NoAsset ELSE getAssetById(id)

findBySlug(slug) ==
  LET id == getIdBySlug(slug)
  IN IF Falsy(id) THEN NoAsset
     ELSE LET a == getAssetById(id)
          IN IF a = NoAsset \/ Truthy(a.deleted_at) THEN NoAsset ELSE a

\* Faulty variant: soft-deleted assets are not filtered out
getAllAssetsWithDeleted(label, disk, visibility) ==
  LET keep(a) == /\ labelMatches(a, label)
                 /\ diskMatches(a, disk)
                 /\ visibilityMatches(a, visibility)
  IN SelectSeq(fetchAllAssetsRaw, keep)

getAllAssets(label, disk, visibility) ==
  LET keep(a) == /\ Falsy(a.deleted_at)
                 /\ labelMatches(a, label)
                 /\ diskMatches(a, disk)
                 /\ visibilityMatches(a, visibility)
  IN SelectSeq(fetchAllAssetsRaw, keep)

recentAssets(label, disk, visibility, limit) ==
  slice(sortBy(getAllAssets(label, disk, visibility), "created_at", -1), 0, clampLimit(limit))

AllowedSort == {"created_at", "label", "slug", "disk", "visibility", "filename"}

listAssets(q, label, disk, visibility, includeDeleted, sort, order, limit, offset) ==
  LET sortKey == IF sort \in AllowedSort THEN sort ELSE "created_at"
      dir == IF toLowerCase(order) = "asc" THEN 1 ELSE -1
      keep(a) == /\ includeDeleted \/ Falsy(a.deleted_at)
                 /\ textMatches(a, q)
                 /\ labelMatches(a, label)
                 /\ diskMatches(a, disk)
                 /\ visibilityMatches(a, visibility)
      list == sortBy(SelectSeq(fetchAllAssetsRaw, keep), sortKey, dir)
      start == Max(0, offset)
      end == start + Max(1, Min(100, IF limit = 0 THEN 20 ELSE limit))
  IN [items |-> slice(list, start, end), total |-> Len(list)]

countAssets(q, label, disk, visibility, includeDeleted) ==
  listAssets(q, label, disk, visibility, includeDeleted, "created_at", "desc", 1, 0).total

getById(id) == getAssetById(id)

\* ------------------------------------------------------------------ GitHub
\* One repository (GH_OWNER/GH_REPO) and one repository path.  info.size is 0
\* for an empty repository, which has no branch.
GH_BRANCH == "main"
DefaultBranch == "main"
GhBranches == {"main", "dev"}
RepoName == "o/r"

branchExists(b) == github.size # 0 /\ b \in GhBranches

\* The blob sha of the uploaded bytes of request p.
BlobOf(p) == "blob_" \o p

ApiCall(kind, branch, sha) == [kind |-> kind, branch |-> branch, sha |-> sha]

\* makeCdnUrl({ owner, repo, branch, path })
makeCdnUrl(branch, path) == "cdn/" \o RepoName \o "@" \o OrElse(branch, GH_BRANCH) \o "/" \o path
\* data.content.html_url of the PUT response
htmlUrl(branch, path) == "github.com/" \o RepoName \o "/blob/" \o branch \o "/" \o path

\* publicUrlFromAsset(a)
publicUrlFromAsset(a) ==
  IF a.disk = "github" THEN makeCdnUrl(OrElse(a.branch, GH_BRANCH), a.path) ELSE a.path

\* ------------------------------------------------------------------ uploadGithubRegister
AllowedExt == {"png"}
extname(filename) == IF filename = "f.png" THEN "png" ELSE IF filename = "f.exe" THEN "exe" ELSE ""
\* repo_path "img/f" carries no extension: the file's extension is appended
repoPathOf(r) == "img/f." \o extname(r.filename)
\* slugify: trim, lower case, [_ and blanks] to "-", other characters dropped
slugify(v) ==
  IF v \in {"S1", " s1 "} THEN "s1" ELSE IF v \in {"S2", "s2!"} THEN "s2" ELSE v

NoReq == [file |-> FALSE, label |-> "", slug |-> Undef, branch |-> Undef, filename |-> ""]
NoResp == [status |-> 0, public_url |-> ""]
Requests ==
  [file : BOOLEAN, label : {"Logo", ""}, slug : Slugs,
   branch : {Undef, "dev", "feature"}, filename : {"f.png", "f.exe"}]

\* z.string().optional().default(GH_BRANCH)
branchOf(r) == Coalesce(r.branch, GH_BRANCH)

\* Faulty variant: the temporary file is removed after the try block instead of in a
\* finally: an early return or a caught error skips it
unlinkOnSuccessOnly(p) == IF ret[p].code = "asset" THEN [tmp EXCEPT ![p] = FALSE] ELSE tmp

\* finally { try { if (req.file?.path) unlinkSync(req.file.path); } catch {} }
finallyUnlink(p) == [tmp EXCEPT ![p] = FALSE]

Respond(p, status, url) ==
  /\ resp' = [resp EXCEPT ![p] = [status |-> status, public_url |-> url]]
  /\ tmp' = finallyUnlink(p)
  /\ pc' = [pc EXCEPT ![p] = "done"]

\* nanoid(12): an id no stored asset and no request in flight has
FreshIds == {i \in Ids : assets[i] = NoAsset /\ \A q \in Procs : call[q].id # i}

Uploading == {q \in Procs : call[q].op = "uploadGithubRegister" /\ pc[q] # "done"}

\* upload.single('file'): multer writes the uploaded bytes to uploads/.
\* The id nanoid will give and a stamp of the capped clock are set aside, so
\* that the bounds never stop a request half way.
Multer(p, r) ==
  /\ now + Cardinality(Uploading) < MaxClock
  /\ \E id \in FreshIds : Begin(p, "uploadGithubRegister", id, NoAsset)
  /\ req' = [req EXCEPT ![p] = r]
  /\ tmp' = [tmp EXCEPT ![p] = r.file]
  /\ pc' = [pc EXCEPT ![p] = "up_handler"]
  /\ UNCHANGED <<assets, slugs, now, cur, ret, resp, github, sent>>

\* The handler up to its first await: file, schema, extension checks
Handler(p) ==
  /\ pc[p] = "up_handler"
  /\ IF ~req[p].file THEN Respond(p, 400, "")
     ELSE IF req[p].label = "" THEN Respond(p, 422, "")
     ELSE IF AllowedExt # {} /\ extname(req[p].filename) \notin AllowedExt
       THEN Respond(p, 400, "")
     ELSE /\ pc' = [pc EXCEPT ![p] = "gh_repo"]
          /\ UNCHANGED <<resp, tmp>>
  /\ UNCHANGED <<assets, slugs, now, call, cur, ret, pre, req, github, sent>>

\* catch (e) { return res.status(500)... } finally { unlink }
Caught(p, code) ==
  /\ ret' = [ret EXCEPT ![p] = Throws(code)]
  /\ Respond(p, 500, "")

\* Faulty variant: the empty-repository check is left out
GhRepoInfoUnchecked(p) ==
  /\ pc[p] = "gh_repo"
  /\ sent' = [sent EXCEPT ![p] = Append(@, ApiCall("GET repo", Undef, Undef))]
  /\ \/ Caught(p, "UPSTREAM")
     \/ /\ pc' = [pc EXCEPT ![p] = "gh_branch"]
        /\ UNCHANGED <<ret, resp, tmp>>
  /\ UNCHANGED <<assets, slugs, now, call, cur, pre, req, github>>

\* const info = await getRepoInfo(owner, repo); if (info.size === 0) throw EMPTY_REPO
GhRepoInfo(p) ==
  /\ pc[p] = "gh_repo"
  /\ sent' = [sent EXCEPT ![p] = Append(@, ApiCall("GET repo", Undef, Undef))]
  /\ \/ Caught(p, "UPSTREAM")
     \/ IF github.size = 0
        THEN Caught(p, "EMPTY_REPO")
        ELSE /\ pc' = [pc EXCEPT ![p] = "gh_branch"]
             /\ UNCHANGED <<ret, resp, tmp>>
  /\ UNCHANGED <<assets, slugs, now, call, cur, pre, req, github>>

\* let targetBranch = branch || defaultBranch;
\* if (!(await tryGetBranch(owner, repo, targetBranch))) targetBranch = defaultBranch;
resolveBranch(requested) ==
  LET targetBranch == OrElse(requested, DefaultBranch)
  IN IF branchExists(targetBranch) THEN targetBranch ELSE DefaultBranch

\* the local targetBranch and sha of uploadToGitHub, kept in cur while it runs
Locals(targetBranch, sha) ==
  [NoAsset EXCEPT !["branch"] = targetBranch, !["sha256"] = sha]

GhBranch(p) ==
  /\ pc[p] = "gh_branch"
  /\ sent' = [sent EXCEPT ![p] =
                Append(@, ApiCall("GET branch", OrElse(branchOf(req[p]), DefaultBranch), Undef))]
  /\ \/ Caught(p, "UPSTREAM") /\ UNCHANGED cur
     \/ /\ cur' = [cur EXCEPT ![p] = Locals(resolveBranch(branchOf(req[p])), Undef)]
        /\ pc' = [pc EXCEPT ![p] = "gh_contents"]
        /\ UNCHANGED <<ret, resp, tmp>>
  /\ UNCHANGED <<assets, slugs, now, call, pre, req, github>>

\* try { sha = (await gh.get(contents?ref=targetBranch)).data.sha }
\* catch (e) { if (e?.response?.status && e.response.status !== 404) throw e; }
GhContents(p) ==
  /\ pc[p] = "gh_contents"
  /\ sent' = [sent EXCEPT ![p] = Append(@, ApiCall("GET contents", cur[p].branch, Undef))]
  /\ \/ \* 200 with the blob, or 404: sha stays undefined
        /\ cur' = [cur EXCEPT ![p] = Locals(cur[p].branch, Coalesce(github.files[cur[p].branch], Undef))]
        /\ pc' = [pc EXCEPT ![p] = "gh_put"]
        /\ UNCHANGED <<ret, resp, tmp>>
     \/ \* another HTTP status: rethrown
        Caught(p, "UPSTREAM") /\ UNCHANGED cur
     \/ \* no response (timeout, network): e.response is undefined, swallowed
        /\ cur' = [cur EXCEPT ![p] = Locals(cur[p].branch, Undef)]
        /\ pc' = [pc EXCEPT ![p] = "gh_put"]
        /\ UNCHANGED <<ret, resp, tmp>>
  /\ UNCHANGED <<assets, slugs, now, call, pre, req, github>>

\* The contents API: a PUT creates the file when none is there and replaces it
\* only when the sha sent is the current blob's.
putAccepted(branch, sha) ==
  IF github.files[branch] = Null THEN sha = Undef ELSE sha = github.files[branch]

\* The asset the handler builds after the upload
uploadedAsset(id, r, contentUrl) ==
  [NoAsset EXCEPT !["id"] = id, !["label"] = r.label, !["slug"] = slugify(r.slug),
                  !["filename"] = r.filename, !["disk"] = "github",
                  !["path"] = repoPathOf(r), !["repo"] = RepoName,
                  !["branch"] = branchOf(r), !["mime"] = "m", !["size"] = "1",
                  !["sha256"] = "h", !["verify_hash"] = "false",
                  !["disposition"] = "inline", !["visibility"] = "public",
                  !["github_url"] = contentUrl,
                  !["cdn_url"] = makeCdnUrl(branchOf(r), repoPathOf(r))]

\* Faulty variant: a refused PUT is sent again with the sha looked up anew
GhPutRetried(p) ==
  /\ pc[p] = "gh_put"
  /\ \/ /\ sent' = [sent EXCEPT ![p] =
                     IF putAccepted(cur[p].branch, cur[p].sha256)
                     THEN Append(@, ApiCall("PUT contents", cur[p].branch, cur[p].sha256))
                     ELSE @ \o <<ApiCall("PUT contents", cur[p].branch, cur[p].sha256),
                                 ApiCall("PUT contents", cur[p].branch,
                                         Coalesce(github.files[cur[p].branch], Undef))>>]
        /\ github' = [github EXCEPT !.files[cur[p].branch] = BlobOf(p)]
        /\ cur' = [cur EXCEPT ![p]["github_url"] = htmlUrl(cur[p].branch, repoPathOf(req[p]))]
        /\ pc' = [pc EXCEPT ![p] = "up_insert"]
        /\ UNCHANGED <<ret, resp, tmp>>
     \/ /\ sent' = [sent EXCEPT ![p] = Append(@, ApiCall("PUT contents", cur[p].branch, cur[p].sha256))]
        /\ Caught(p, "UPSTREAM")
        /\ UNCHANGED <<cur, github>>
  /\ UNCHANGED <<assets, slugs, now, call, pre, req>>

\* const { data } = await gh.put(contents, { branch: targetBranch, sha, ... })
\* No catch, no loop: whatever error the PUT ends in goes to the caller.
GhPut(p) ==
  /\ pc[p] = "gh_put"
  /\ sent' = [sent EXCEPT ![p] = Append(@, ApiCall("PUT contents", cur[p].branch, cur[p].sha256))]
  /\ \/ /\ putAccepted(cur[p].branch, cur[p].sha256)
        /\ github' = [github EXCEPT !.files[cur[p].branch] = BlobOf(p)]
        /\ cur' = [cur EXCEPT ![p]["github_url"] = htmlUrl(cur[p].branch, repoPathOf(req[p]))]
        /\ pc' = [pc EXCEPT ![p] = "up_insert"]
        /\ UNCHANGED <<ret, resp, tmp>>
     \/ \* refused: the sha is missing (422) or not the current one (409)
        /\ ~putAccepted(cur[p].branch, cur[p].sha256)
        /\ Caught(p, "CONFLICT")
        /\ UNCHANGED <<cur, github>>
     \/ \* any other failure
        Caught(p, "UPSTREAM") /\ UNCHANGED <<cur, github>>
  /\ UNCHANGED <<assets, slugs, now, call, pre, req>>

\* const asset = {...}; await insertAsset(asset)
UpInsert(p) ==
  /\ pc[p] = "up_insert"
  /\ insertReserve(p, uploadedAsset(call[p].id, req[p], cur[p].github_url), "uploadGithubRegister")
  /\ UNCHANGED <<call, pre, req, tmp, resp, github, sent>>

\* return res.json({ ok: true, asset, public_url }), or the catch block; finally
UpRespond(p) ==
  /\ pc[p] = "up_respond"
  /\ IF ret[p].code = "asset"
     THEN Respond(p, 200, publicUrlFromAsset(ret[p].val))
     ELSE Respond(p, 500, "")
  /\ UNCHANGED <<assets, slugs, now, call, cur, ret, pre, req, github, sent>>

\* The caller takes the result; the process is free for the next call.
Return(p) ==
  /\ pc[p] = "done"
  /\ pc' = [pc EXCEPT ![p] = "idle"]
  /\ call' = [call EXCEPT ![p] = NoCall]
  /\ cur' = [cur EXCEPT ![p] = NoAsset]
  /\ ret' = [ret EXCEPT ![p] = Pending]
  /\ pre' = [pre EXCEPT ![p] = NoPre]
  /\ req' = [req EXCEPT ![p] = NoReq]
  /\ resp' = [resp EXCEPT ![p] = NoResp]
  /\ sent' = [sent EXCEPT ![p] = <<>>]
  /\ UNCHANGED <<assets, slugs, now, github, tmp>>

\* ------------------------------------------------------------------ registerExisting
RegisterOp == "registerExisting"
\* req.body as registerSchema takes it: slug as the caller typed it, disk,
\* path, optional visibility and verify_hash
RegisterRequests ==
  {r \in [label : {"Logo", ""}, slug : {"s1", "S2"}, disk : {"remote", "github"},
          path : {"u", "not a url"}, filename : {"f.png", "f.exe"},
          visibility : {Undef, "private", ""}, verify_hash : {Undef, "on"}] :
     /\ r.disk = "github" => r.path = "u"
     /\ r.verify_hash = "on" <=> r.visibility = "private"}

\* new URL(v.path) succeeds
validUrl(path) == path # "not a url"
\* mime.lookup(filename) || 'application/octet-stream'
mimeLookup(filename) == IF extname(filename) = "png" THEN "m" ELSE "application/octet-stream"
\* toBool of the controller: booleans, 'true' / '1' / 'on' / 'yes', the number 1
controllerToBool(v) ==
  IF v \in {"true", "'true'", "'1'", "1", "'on'", "on", "'yes'", "yes"} THEN "true" ELSE "false"

\* const asset = { id: nanoid(12), label, slug, filename, disk, path, mime, size,
\* sha256, verify_hash, disposition, visibility }: no repo, no branch
registeredAsset(id, r) ==
  [NoAsset EXCEPT !["id"] = id, !["label"] = r.label, !["slug"] = slugify(r.slug),
                  !["filename"] = r.filename, !["disk"] = r.disk, !["path"] = r.path,
                  !["mime"] = mimeLookup(r.filename), !["size"] = Null, !["sha256"] = Null,
                  !["verify_hash"] = controllerToBool(r.verify_hash),
                  !["disposition"] = "inline",
                  !["visibility"] = IF r.visibility = Undef THEN "public" ELSE r.visibility]

Registering == {q \in Procs : call[q].op = RegisterOp /\ pc[q] # "done"}

RegisterRespond(p, status, url) ==
  /\ resp' = [resp EXCEPT ![p] = [status |-> status, public_url |-> url]]
  /\ pc' = [pc EXCEPT ![p] = "done"]

\* The handler up to await insertAsset(asset): schema, extension, remote URL
RegisterExisting(p, r) ==
  /\ now + Cardinality(Registering \cup Uploading) < MaxClock
  /\ \E id \in FreshIds : Begin(p, RegisterOp, id, NoAsset)
  /\ req' = [req EXCEPT ![p] = r]
  /\ IF r.label = "" THEN RegisterRespond(p, 422, "")
     ELSE IF AllowedExt # {} /\ extname(r.filename) \notin AllowedExt
       THEN RegisterRespond(p, 400, "")
     ELSE IF r.disk = "remote" /\ ~validUrl(r.path) THEN RegisterRespond(p, 400, "")
     ELSE pc' = [pc EXCEPT ![p] = "reg_insert"] /\ UNCHANGED resp
  /\ UNCHANGED <<assets, slugs, now, cur, ret, tmp, github, sent>>

\* await insertAsset(asset)
RegInsert(p) ==
  /\ pc[p] = "reg_insert"
  /\ insertReserve(p, registeredAsset(call[p].id, req[p]), RegisterOp)
  /\ UNCHANGED <<call, pre, req, tmp, resp, github, sent>>

\* return res.json({ ok: true, asset, public_url: publicUrlFromAsset(asset) }).
\* There is no try/catch and the app has no error middleware: when insertAsset
\* throws, the handler's promise rejects. Express 4 leaves the rejection
\* unhandled (no response is sent), Express 5 answers 500.
RegRespond(p) ==
  /\ pc[p] = "reg_respond"
  /\ IF ret[p].code = "asset"
     THEN RegisterRespond(p, 200, publicUrlFromAsset(registeredAsset(call[p].id, req[p])))
     ELSE \E status \in {0, 500} : RegisterRespond(p, status, "")
  /\ UNCHANGED <<assets, slugs, now, call, cur, ret, pre, req, tmp, github, sent>>

\* ------------------------------------------------------------------ deleteGithubAsset
DeleteOp == "deleteGithubAsset"
\* req.body: repo_path is required, branch is optional
DeleteRequests == [repo_path : {Undef, "img/f.png"}, branch : {Undef, "dev", "feature"}]

\* data.commit.sha / data.commit.html_url of the DELETE response
CommitOf(p) == "commit_" \o p
commitUrl(p) == "github.com/" \o RepoName \o "/commit/" \o CommitOf(p)

\* The blob at the path on a branch; a branch the repository does not have has none.
blobAt(branch) == IF branch \in GhBranches THEN github.files[branch] ELSE Null

\* res.status(status).json(...): deleteGithubAsset has no finally block
DeleteRespond(p, status) ==
  /\ resp' = [resp EXCEPT ![p] = [status |-> status, public_url |-> ""]]
  /\ pc' = [pc EXCEPT ![p] = "done"]

\* catch (e): FILE_NOT_FOUND -> 404, e.response.data -> 502, anything else -> 500
DeleteCaught(p, code) ==
  /\ ret' = [ret EXCEPT ![p] = Throws(code)]
  /\ DeleteRespond(p, IF code = "FILE_NOT_FOUND" THEN 404
                      ELSE IF code = "UPSTREAM" THEN 502 ELSE 500)

\* A call to GitHub that fails: with an error response (its payload in
\* e.response.data), or without any response (timeout, network).
GhFails(p) == DeleteCaught(p, "UPSTREAM") \/ DeleteCaught(p, "NETWORK")

\* schema.safeParse(req.body); 422 when repo_path is missing
DeleteGithubAsset(p, r) ==
  /\ Begin(p, DeleteOp, Null, NoAsset)
  /\ req' = [req EXCEPT ![p] = r]
  /\ IF r.repo_path = Undef
     THEN DeleteRespond(p, 422)
     ELSE pc' = [pc EXCEPT ![p] = "dl_repo"] /\ UNCHANGED resp
  /\ UNCHANGED <<assets, slugs, now, cur, ret, tmp, github, sent>>

\* const info = await getRepoInfo(owner, repo);
\* const targetBranch = branch || info.default_branch;
DlRepoInfo(p) ==
  /\ pc[p] = "dl_repo"
  /\ sent' = [sent EXCEPT ![p] = Append(@, ApiCall("GET repo", Undef, Undef))]
  /\ \/ GhFails(p) /\ UNCHANGED cur
     \/ /\ cur' = [cur EXCEPT ![p] = Locals(OrElse(req[p].branch, DefaultBranch), Undef)]
        /\ pc' = [pc EXCEPT ![p] = "dl_contents"]
        /\ UNCHANGED <<ret, resp>>
  /\ UNCHANGED <<assets, slugs, now, call, pre, req, tmp, github>>

\* Faulty variant: a 404 of the lookup is taken for "no sha needed", as in the upload
DlContentsNotFoundIgnored(p) ==
  /\ pc[p] = "dl_contents"
  /\ sent' = [sent EXCEPT ![p] = Append(@, ApiCall("GET contents", cur[p].branch, Undef))]
  /\ \/ /\ cur' = [cur EXCEPT ![p] = Locals(cur[p].branch, Coalesce(blobAt(cur[p].branch), Undef))]
        /\ pc' = [pc EXCEPT ![p] = "dl_delete"]
        /\ UNCHANGED <<ret, resp>>
     \/ GhFails(p) /\ UNCHANGED cur
  /\ UNCHANGED <<assets, slugs, now, call, pre, req, tmp, github>>

\* try { sha = (await gh.get(contents?ref=targetBranch)).data.sha }
\* catch (e) { if (e?.response?.status === 404) throw FILE_NOT_FOUND; throw e; }
DlContents(p) ==
  /\ pc[p] = "dl_contents"
  /\ sent' = [sent EXCEPT ![p] = Append(@, ApiCall("GET contents", cur[p].branch, Undef))]
  /\ \/ IF blobAt(cur[p].branch) = Null
        THEN DeleteCaught(p, "FILE_NOT_FOUND") /\ UNCHANGED cur
        ELSE /\ cur' = [cur EXCEPT ![p] = Locals(cur[p].branch, blobAt(cur[p].branch))]
             /\ pc' = [pc EXCEPT ![p] = "dl_delete"]
             /\ UNCHANGED <<ret, resp>>
     \/ GhFails(p) /\ UNCHANGED cur
  /\ UNCHANGED <<assets, slugs, now, call, pre, req, tmp, github>>

\* The contents API removes the file only when the sha sent is the current blob's.
deleteAccepted(branch, sha) == blobAt(branch) # Null /\ sha = blobAt(branch)

\* return { path, branch: targetBranch, commit_sha, commit_url }
deleteResult(p) ==
  [path |-> req[p].repo_path, branch |-> cur[p].branch,
   commit_sha |-> CommitOf(p), commit_url |-> commitUrl(p)]

\* const { data } = await gh.delete(contents, { data: { sha, branch: targetBranch, ... } })
\* and the 200 response of the handler
DlDelete(p) ==
  /\ pc[p] = "dl_delete"
  /\ sent' = [sent EXCEPT ![p] = Append(@, ApiCall("DELETE contents", cur[p].branch, cur[p].sha256))]
  /\ \/ /\ deleteAccepted(cur[p].branch, cur[p].sha256)
        /\ github' = [github EXCEPT !.files[cur[p].branch] = Null]
        /\ ret' = [ret EXCEPT ![p] = Returns("deleted", deleteResult(p))]
        /\ DeleteRespond(p, 200)
     \/ GhFails(p) /\ UNCHANGED github
  /\ UNCHANGED <<assets, slugs, now, call, cur, pre, req, tmp>>

\* ------------------------------------------------------------------ the file-backed store
\* data/assets.json holds { assets: [...] }. In the specification of this store
\* the variable assets is that array, newest record first, and cur[p] is the
\* db object loadDB returned to the call of p.
FileInsertOp == "file.insertAsset"

\* db.assets.find(a => a.slug === slug): undefined when there is none
fileFindBySlug(list, slug) ==
  LET hits == {n \in 1..Len(list) : list[n].slug = slug}
  IN IF hits = {} THEN NoAsset ELSE list[CHOOSE n \in hits : \A m \in hits : n <= m]

\* { ...asset, created_at: dayjs().toISOString() }
fileRecord(asset, t) == Spread(asset, [NoAsset EXCEPT !["created_at"] = t])

\* const db = await loadDB();
FileInsertAsset(p, asset) ==
  /\ now < MaxClock
  /\ Begin(p, FileInsertOp, asset.id, asset)
  /\ cur' = [cur EXCEPT ![p] = assets]
  /\ pc' = [pc EXCEPT ![p] = "file_save"]
  /\ UNCHANGED <<assets, slugs, now, ret>>
  /\ UNCHANGED uploadVars

\* db.assets.unshift({...}); await saveDB(db); return asset;
FileSave(p) ==
  /\ pc[p] = "file_save"
  /\ \E t \in Ticks :
       /\ now' = t
       /\ \/ /\ assets' = <<fileRecord(call[p].arg, Stamp(t))>> \o cur[p]
             /\ ret' = [ret EXCEPT ![p] = Returns("asset", call[p].arg)]
          \/ /\ ret' = [ret EXCEPT ![p] = Throws("WRITE_FAILED")]
             /\ UNCHANGED assets
  /\ pc' = [pc EXCEPT ![p] = "done"]
  /\ UNCHANGED <<slugs, call, cur, pre>>
  /\ UNCHANGED uploadVars

\* ------------------------------------------------------------------ inputs
\* An asset as the creation flows hand it to insertAsset.
NewAsset(id, slug) ==
  [NoAsset EXCEPT !["id"] = id, !["label"] = "Logo", !["slug"] = slug,
                  !["filename"] = "f.png", !["disk"] = "remote", !["path"] = "u",
                  !["mime"] = "m", !["verify_hash"] = "false",
                  !["disposition"] = "inline", !["visibility"] = "public"]
InsertInputs == {NewAsset(i, s) : i \in Ids, s \in Slugs}

Patch(k, v) == [NoAsset EXCEPT ![k] = v]
Patches ==
  {Patch("slug", s) : s \in Slugs} \cup
  {Patch("label", "logo2"), Patch("id", "zz"), Patch("created_at", "T0"),
   Patch("deleted_at", "T0"), Patch("unknown", "x")}

\* ------------------------------------------------------------------ specifications
Init ==
  /\ assets = [i \in Ids |-> NoAsset]
  /\ slugs = [s \in Slugs |-> Null]
  /\ now = 0
  /\ pc = [p \in Procs |-> "idle"]
  /\ call = [p \in Procs |-> NoCall]
  /\ cur = [p \in Procs |-> NoAsset]
  /\ ret = [p \in Procs |-> Pending]
  /\ pre = [p \in Procs |-> NoPre]
  /\ req = [p \in Procs |-> NoReq]
  /\ tmp = [p \in Procs |-> FALSE]
  /\ resp = [p \in Procs |-> NoResp]
  /\ sent = [p \in Procs |-> <<>>]
  /\ github = [size |-> 1, files |-> [b \in GhBranches |-> Null]]

StoreStep(p) ==
  \/ \E a \in InsertInputs : InsertAsset(p, a)
  \/ InsSet(p)
  \/ InsRelease(p)
  \/ \E i \in Ids, patch \in Patches : UpdateAsset(p, i, patch)
  \/ UpdReserve(p)
  \/ UpdRelease(p)
  \/ UpdSet(p)
  \/ \E i \in Ids : SoftDeleteAsset(p, i)
  \/ DelSet(p)
  \/ \E i \in Ids : RestoreAsset(p, i)
  \/ ResSet(p)
  \/ Return(p)

\* Store calls run one after another, each to completion.
Next == StoreStep("p1")
Spec == Init /\ [][Next]_vars

\* Upload requests, handled one after another.
UploadStep(p) ==
  \/ \E r \in Requests : Multer(p, r)
  \/ Handler(p)
  \/ GhRepoInfo(p)
  \/ GhBranch(p)
  \/ GhContents(p)
  \/ GhPut(p)
  \/ UpInsert(p)
  \/ InsSet(p)
  \/ InsRelease(p)
  \/ UpRespond(p)
  \/ Return(p)

\* The repository is empty (size 0, no branch), or holds commits and perhaps
\* already a file at the path.
InitUpload ==
  /\ assets = [i \in Ids |-> NoAsset]
  /\ slugs = [s \in Slugs |-> Null]
  /\ now = 0
  /\ pc = [p \in Procs |-> "idle"]
  /\ call = [p \in Procs |-> NoCall]
  /\ cur = [p \in Procs |-> NoAsset]
  /\ ret = [p \in Procs |-> Pending]
  /\ pre = [p \in Procs |-> NoPre]
  /\ req = [p \in Procs |-> NoReq]
  /\ tmp = [p \in Procs |-> FALSE]
  /\ resp = [p \in Procs |-> NoResp]
  /\ sent = [p \in Procs |-> <<>>]
  /\ github \in [size : {0}, files : [GhBranches -> {Null}]] \cup
                [size : {1}, files : [GhBranches -> {Null, "blob_0"}]]

NextUpload == UploadStep("p1")
SpecUpload == InitUpload /\ [][NextUpload]_vars

\* Once multer has handed the request over, the handler runs to its end: every
\* GitHub call answers or times out (axios timeout 20000), every store call
\* settles.
HandlerStep(p) ==
  \/ Handler(p)
  \/ GhRepoInfo(p)
  \/ GhBranch(p)
  \/ GhContents(p)
  \/ GhPut(p)
  \/ UpInsert(p)
  \/ InsSet(p)
  \/ InsRelease(p)
  \/ UpRespond(p)
SpecUploadFair == SpecUpload /\ WF_vars(HandlerStep("p1"))

\* The two creation flows, requests handled one after another; the repository
\* holds commits and no file at the path yet.
RegisterStep(p) ==
  \/ \E r \in RegisterRequests : RegisterExisting(p, r)
  \/ RegInsert(p)
  \/ RegRespond(p)
CreateStep(p) ==
  \/ RegisterStep(p)
  \/ UploadStep(p)
NextCreate == CreateStep("p1")
SpecCreate == Init /\ [][NextCreate]_vars

\* Delete requests, handled one after another, on a repository as InitUpload
\* describes it.
DeleteStep(p) ==
  \/ \E r \in DeleteRequests : DeleteGithubAsset(p, r)
  \/ DlRepoInfo(p)
  \/ DlContents(p)
  \/ DlDelete(p)
  \/ Return(p)
NextDelete == DeleteStep("p1")
SpecDelete == InitUpload /\ [][NextDelete]_vars

\* The file-backed store with its single writer: insertAsset calls one after
\* another, on a file that starts with no assets.
InitFile ==
  /\ assets = <<>>
  /\ slugs = [s \in Slugs |-> Null]
  /\ now = 0
  /\ pc = [p \in Procs |-> "idle"]
  /\ call = [p \in Procs |-> NoCall]
  /\ cur = [p \in Procs |-> NoAsset]
  /\ ret = [p \in Procs |-> Pending]
  /\ pre = [p \in Procs |-> NoPre]
  /\ req = [p \in Procs |-> NoReq]
  /\ tmp = [p \in Procs |-> FALSE]
  /\ resp = [p \in Procs |-> NoResp]
  /\ sent = [p \in Procs |-> <<>>]
  /\ github = [size |-> 1, files |-> [b \in GhBranches |-> Null]]
FileStep(p) ==
  \/ \E a \in InsertInputs : FileInsertAsset(p, a)
  \/ FileSave(p)
  \/ Return(p)
NextFile == FileStep("p1")
SpecFile == InitFile /\ [][NextFile]_vars

\* Concurrent requests on the RTDB store: each await of a call is one step and
\* the steps of two calls interleave in any order.  The store takes every
\* write, and ids are new for every insert, as nanoid gives them.
ConcurrentPatches == {Patch("slug", s) : s \in Slugs} \cup {Patch("label", "logo2")}

ConcurrentInsert(p) ==
  \/ \E a \in InsertInputs : a.id \in FreshIds /\ InsertAsset(p, a)
  \/ InsSetOk(p)

ConcurrentStep(p) ==
  \/ ConcurrentInsert(p)
  \/ \E i \in Ids, patch \in ConcurrentPatches : UpdateAsset(p, i, patch)
  \/ UpdReserve(p)
  \/ UpdRelease(p)
  \/ UpdSet(p) /\ ret'[p].code = "asset"
  \/ Return(p)

NextConcurrent == \E p \in Procs : ConcurrentStep(p)
SpecConcurrent == Init /\ [][NextConcurrent]_vars

\* Concurrent updateAsset, softDeleteAsset and restoreAsset calls; the updates
\* patch the label.
DeleteRaceStep(p) ==
  \/ ConcurrentInsert(p)
  \/ \E i \in Ids : UpdateAsset(p, i, Patch("label", "logo2"))
  \/ UpdSet(p) /\ ret'[p].code = "asset"
  \/ \E i \in Ids : SoftDeleteAsset(p, i)
  \/ DelSet(p) /\ ret'[p].code = "true"
  \/ \E i \in Ids : RestoreAsset(p, i)
  \/ ResSet(p) /\ ret'[p].code = "true"
  \/ Return(p)

NextDeleteRace == \E p \in Procs : DeleteRaceStep(p)
SpecDeleteRace == Init /\ [][NextDeleteRace]_vars

\* ------------------------------------------------------------------ claims
Quiescent == \A p \in Procs : pc[p] \in {"idle", "done"}
Stored(i) == assets[i] # NoAsset
Active(i) == Stored(i) /\ Falsy(getById(i).deleted_at)

\* C1: after any sequence of insertAsset, updateAsset, softDeleteAsset and
\* restoreAsset calls, each run to completion, no two assets stored under
\* /assets that have deleted_at = null share the same slug.
C1_ActiveSlugsUnique ==
  Quiescent =>
    \A i, j \in Ids : (i # j /\ Active(i) /\ Active(j)) => getById(i).slug # getById(j).slug

\* ------------------------------------------------------------------ the race of two inserts
\* Two requests each call insertAsset once, on a store that takes every write;
\* their reserveSlug and setAsset steps interleave in any order.
NextRace == \E p \in Procs : (\E a \in InsertInputs : InsertAsset(p, a)) \/ InsSetOk(p)
SpecRace == Init /\ [][NextRace]_vars

RaceOver == \A p \in Procs : pc[p] = "done"
SameSlugRace ==
  /\ \A p \in Procs : call[p].op = "insertAsset"
  /\ call["p1"].arg.slug = call["p2"].arg.slug
  /\ call["p1"].id # call["p2"].id

\* C2: when two insertAsset calls with the same slug and different ids run
\* concurrently, exactly one returns the stored asset and the other throws the
\* slug conflict; once both have finished, /assets holds only the winner's
\* record and /slugs/{slug} points to the winner's id.
C2_ExactlyOneInsertWins ==
  (RaceOver /\ SameSlugRace) =>
    \E w, l \in Procs :
      /\ w # l
      /\ ret[w].code = "asset"
      /\ ret[l].code = "SLUG_EXISTS"
      /\ getById(call[w].id) = ret[w].val
      /\ \A i \in Ids : Stored(i) <=> i = call[w].id
      /\ slugs = [s \in Slugs |-> IF s = ret[w].val.slug THEN call[w].id ELSE Null]

\* The loser met the winner's reservation before the winner's asset was written.
C2_Witness ==
  /\ RaceOver /\ SameSlugRace
  /\ \E w, l \in Procs :
       /\ ret[w].code = "asset"
       /\ ret[l].code = "SLUG_EXISTS"
       /\ pre[l].slugs[call[l].arg.slug] = call[w].id
       /\ pre[l].assets[call[w].id] = NoAsset

\* ------------------------------------------------------------------ claims on the store, calls run one by one
Finished(p, op) == pc[p] = "done" /\ call[p].op = op
\* The record under /assets/{id} when the call of p began
Before(p) == normalizeAsset(pre[p].assets[call[p].id])
StoreAsBefore(p) == assets = pre[p].assets /\ slugs = pre[p].slugs

\* C3: insertAsset with a slug already reserved in /slugs fails with the slug
\* conflict and leaves /assets and /slugs exactly as they were; and if the asset
\* write fails after the slug was reserved, the reservation is released, so no
\* slug entry without an asset remains.
C3_InsertLeavesNoPartialState ==
  \A p \in Procs :
    Finished(p, "insertAsset") =>
      /\ pre[p].slugs[call[p].arg.slug] # Null =>
           ret[p].code = "SLUG_EXISTS" /\ StoreAsBefore(p)
      /\ ret[p].code = "SLUG_EXISTS" => StoreAsBefore(p)
      /\ ret[p].code = "WRITE_FAILED" =>
           slugs[call[p].arg.slug] = Null /\ StoreAsBefore(p)

C3_Witness ==
  \E p \in Procs :
    /\ Finished(p, "insertAsset")
    /\ ret[p].code = "SLUG_EXISTS"
    /\ call[p].id # slugs[call[p].arg.slug]
    /\ Active(slugs[call[p].arg.slug])
    /\ ~Stored(call[p].id)

InSeq(x, list) == \E n \in 1..Len(list) : list[n] = x
\* <<label, disk>> filters, q filters, <<sort, order>> arguments, limits
Filters == {<<Undef, Undef>>, <<"logo", "remote">>}
TextFilters == {Undef, "s1"}
Sortings == {<<"created_at", "desc">>, <<"slug", "asc">>}
Limits == {1, 150}
Visible(i, q, label, disk) ==
  LET a == getById(i)
  IN /\ Stored(i) /\ Falsy(a.deleted_at)
     /\ textMatches(a, q)
     /\ labelMatches(a, label)
     /\ diskMatches(a, disk)
\* No element of a query result is a soft-deleted record
NoneDeleted(list) == \A n \in 1..Len(list) : Falsy(list[n].deleted_at)

C5_SoftDeletedAreHidden ==
  /\ \A s \in Slugs :
       /\ getIdBySlug(s) = Null => findBySlug(s) = NoAsset
       /\ Falsy(findBySlug(s).deleted_at)
  /\ \A i \in Ids : Stored(i) => getById(i) = normalizeAsset(assets[i]) /\ getById(i) # NoAsset
  /\ \A f \in Filters :
       /\ NoneDeleted(getAllAssets(f[1], f[2], Undef))
       /\ \A limit \in Limits : NoneDeleted(recentAssets(f[1], f[2], Undef, limit))
       /\ \A q \in TextFilters :
            /\ countAssets(q, f[1], f[2], Undef, FALSE)
                 = Cardinality({i \in Ids : Visible(i, q, f[1], f[2])})
            /\ \A so \in Sortings :
                 NoneDeleted(listAssets(q, f[1], f[2], Undef, FALSE, so[1], so[2], 150, 0).items)

\* A soft-deleted asset beside an active one, its slug entry still in place.
C5_Witness ==
  \E i, j \in Ids :
    /\ Stored(i) /\ getById(i).deleted_at \in {Stamp(n) : n \in 1..MaxClock}
    /\ getIdBySlug(getById(i).slug) = i
    /\ Active(j)
    /\ Len(getAllAssets(Undef, Undef, Undef)) = 1
    /\ Quiescent

\* C6: updateAsset(id, patch) whose patch.slug differs from the asset's current
\* slug and is claimed in /slugs by another asset changes nothing; it throws the
\* slug conflict (for a soft-deleted asset it returns null before it looks at
\* the slug).
C6_SlugConflictOnUpdateChangesNothing ==
  \A p \in Procs :
    Finished(p, "updateAsset") =>
      LET id == call[p].id
          patch == call[p].arg
          before == Before(p)
      IN (/\ before # NoAsset
          /\ Truthy(patch.slug) /\ patch.slug # before.slug
          /\ pre[p].slugs[patch.slug] \notin {Null, id}) =>
           /\ StoreAsBefore(p)
           /\ ret[p].code = IF Falsy(before.deleted_at) THEN "SLUG_EXISTS" ELSE "null"

C6_Witness ==
  \E p \in Procs :
    /\ Finished(p, "updateAsset")
    /\ ret[p].code = "SLUG_EXISTS"
    /\ slugs[call[p].arg.slug] # call[p].id
    /\ Active(slugs[call[p].arg.slug])
    /\ getIdBySlug(getById(call[p].id).slug) = call[p].id

\* C7: for any patch object, updateAsset(id, patch) leaves the asset's id,
\* created_at and deleted_at unchanged and the record stays under /assets/{id};
\* keys outside the allow-list are ignored, updated_at is refreshed.
C7_UpdateKeepsImmutableFields ==
  \A p \in Procs :
    (Finished(p, "updateAsset") /\ ret[p].code = "asset") =>
      LET before == Before(p)
          after == getById(call[p].id)
      IN /\ after = ret[p].val
         /\ after.id = before.id
         /\ after.created_at = before.created_at
         /\ after.deleted_at = before.deleted_at
         /\ after.unknown = Undef
         /\ after.updated_at # before.updated_at

\* ------------------------------------------------------------------ claims on uploadGithubRegister
Upload == "uploadGithubRegister"

\* C8: when uploadGithubRegister is called with a branch that does not exist in
\* the repository, the file is committed to the default branch and the persisted
\* asset's branch (and the branch in its cdn_url / public_url) is that default
\* branch, not the requested one.
C8_FallbackBranchIsRecorded ==
  \A p \in Procs :
    (/\ Finished(p, Upload)
     /\ resp[p].status = 200
     /\ ~branchExists(branchOf(req[p]))) =>
      LET a == getById(call[p].id)
      IN /\ github.files[DefaultBranch] = BlobOf(p)
         /\ a.branch = DefaultBranch
         /\ a.cdn_url = makeCdnUrl(DefaultBranch, a.path)
         /\ resp[p].public_url = makeCdnUrl(DefaultBranch, a.path)

\* C9: when the repository is empty (repository info reports size 0),
\* uploadToGitHub fails with the empty-repository error before any branch
\* lookup, content lookup or content PUT is issued, and uploadGithubRegister
\* persists no asset.
C9_EmptyRepositoryStopsUpload ==
  \A p \in Procs :
    (call[p].op = Upload /\ github.size = 0) =>
      /\ \A n \in 1..Len(sent[p]) : sent[p][n].kind = "GET repo"
      /\ Len(sent[p]) <= 1
      /\ StoreAsBefore(p)
      /\ github.files = [b \in GhBranches |-> Null]
      /\ (pc[p] = "done" /\ sent[p] # <<>> /\ ret[p].code # "UPSTREAM") =>
           ret[p].code = "EMPTY_REPO" /\ resp[p].status = 500

C9_Witness ==
  \E p \in Procs :
    /\ Finished(p, Upload)
    /\ github.size = 0
    /\ ret[p].code = "EMPTY_REPO"
    /\ sent[p] = <<ApiCall("GET repo", Undef, Undef)>>

\* C10: every uploadGithubRegister request that carries a file eventually
\* removes the temporary local copy, on every exit path: 422, 400, GitHub upload
\* failure, store insert failure, success.
\* (SpecUploadFair hands its requests to p1; its handler is the fair one.)
C10_TempFileIsRemoved ==
  /\ tmp["p1"] ~> ~tmp["p1"]
  /\ [](\A p \in Procs : Finished(p, Upload) => ~tmp[p])

\* The exit path furthest down: the upload went through, the insert failed.
C10_Witness ==
  \E p \in Procs :
    /\ Finished(p, Upload)
    /\ req[p].file /\ ~tmp[p]
    /\ resp[p].status = 500
    /\ ret[p].code = "SLUG_EXISTS"
    /\ github.files[DefaultBranch] = BlobOf(p)

\* ------------------------------------------------------------------ claims on the GitHub calls
\* The blob sha of the file at the path on the branch the running call resolved,
\* undefined when no file is there.
CurrentSha(p) == Coalesce(github.files[cur[p].branch], Undef)

\* C11: uploadToGitHub sends the content PUT with the file's current blob sha
\* whenever a file exists at the path on the resolved branch, and without a sha
\* only when the lookup answered that the file is absent; a lookup that fails in
\* any other way aborts the upload, so no PUT is about to be sent then. The PUT
\* names the resolved branch (an existing one, the requested one if it exists).
C11_PutCarriesCurrentSha ==
  \A p \in Procs :
    (call[p].op = Upload /\ pc[p] = "gh_put") =>
      /\ cur[p].sha256 = CurrentSha(p)
      /\ cur[p].branch \in GhBranches
      /\ branchOf(req[p]) \in GhBranches => cur[p].branch = branchOf(req[p])

\* ------------------------------------------------------------------ the race of two uploads
\* Two upload requests, each with a file and a valid body, handled at the same
\* time: the handlers' awaits interleave in any order.
RaceRequests ==
  {r \in Requests : r.file /\ r.label = "Logo" /\ r.filename = "f.png" /\ r.branch \in {Undef, "dev"}}
UploadRaceStep(p) ==
  \/ \E r \in RaceRequests : Multer(p, r)
  \/ HandlerStep(p)
NextUploadRace == \E p \in Procs : UploadRaceStep(p)
SpecUploadRace == InitUpload /\ [][NextUploadRace]_vars

PutsSent(p) == {n \in 1..Len(sent[p]) : sent[p][n].kind = "PUT contents"}
GitHubError(code) == code \in {"CONFLICT", "UPSTREAM"}

\* C12: an uploadToGitHub call issues at most one content PUT and never retries
\* it; a PUT whose sha is not the current blob sha of the file (another upload
\* wrote the path in between) fails with the upstream error, leaves the content
\* the other upload wrote in place, and the handler answers 500 and persists no
\* asset for it.
C12_StalePutIsRefused ==
  /\ [](\A p \in Procs : Cardinality(PutsSent(p)) <= 1)
  /\ [][\A p \in Procs :
          (pc[p] = "gh_put" /\ pc'[p] # "gh_put" /\ cur[p].sha256 # CurrentSha(p)) =>
            /\ github' = github
            /\ GitHubError(ret'[p].code)
            /\ pc'[p] = "done" /\ resp'[p].status = 500
            /\ assets' = assets /\ slugs' = slugs]_vars
  /\ [](\A p \in Procs :
          (Finished(p, Upload) /\ GitHubError(ret[p].code)) =>
            /\ ~Stored(call[p].id)
            /\ \A s \in Slugs : slugs[s] # call[p].id)

\* Both uploads looked the path up before either wrote it; the first PUT went
\* through and its asset is stored, the second was refused.
C12_Witness ==
  \E w, l \in Procs :
    /\ w # l
    /\ Finished(w, Upload) /\ ret[w].code = "asset" /\ Stored(call[w].id)
    /\ Finished(l, Upload) /\ ret[l].code = "CONFLICT" /\ ~Stored(call[l].id)
    /\ \E m \in PutsSent(w), n \in PutsSent(l) :
         /\ sent[w][m] = sent[l][n]
         /\ github.files[sent[w][m].branch] = BlobOf(w)

\* ------------------------------------------------------------------ claims on deleteGithubAsset
DeletesSent(p) == {n \in 1..Len(sent[p]) : sent[p][n].kind = "DELETE contents"}
\* branch || info.default_branch of the request of p
DeleteBranch(p) == OrElse(req[p].branch, DefaultBranch)

\* C13: deleteFromGitHub fails with FILE_NOT_FOUND, without issuing a DELETE,
\* when no file exists at the path on the resolved branch; when the file exists
\* it issues exactly one DELETE carrying the file's current blob sha and the
\* resolved branch and returns that branch and the commit reference.
\* deleteGithubAsset answers FILE_NOT_FOUND with 404, an upstream error with a
\* response payload with 502, any other failure with 500.
C13_DeleteNeedsTheFile ==
  \A p \in Procs :
    call[p].op = DeleteOp =>
      /\ Cardinality(DeletesSent(p)) <= 1
      /\ pc[p] = "dl_delete" =>
           /\ cur[p].branch = DeleteBranch(p)
           /\ cur[p].sha256 = blobAt(DeleteBranch(p))
           /\ cur[p].sha256 \notin {Null, Undef}
      /\ (pc[p] = "done" /\ req[p].repo_path # Undef) =>
           /\ ret[p].code = "FILE_NOT_FOUND" =>
                /\ resp[p].status = 404
                /\ DeletesSent(p) = {}
                /\ blobAt(DeleteBranch(p)) = Null
           /\ ret[p].code = "deleted" =>
                /\ resp[p].status = 200
                /\ Len(sent[p]) = 3
                /\ sent[p][3].kind = "DELETE contents"
                /\ sent[p][3].branch = DeleteBranch(p)
                /\ sent[p][3].sha \notin {Null, Undef}
                /\ blobAt(DeleteBranch(p)) = Null
                /\ ret[p].val.branch = DeleteBranch(p)
                /\ ret[p].val.commit_sha = CommitOf(p)
           /\ ret[p].code = "UPSTREAM" => resp[p].status = 502
           /\ ret[p].code = "NETWORK" => resp[p].status = 500
           /\ ret[p].code \in {"FILE_NOT_FOUND", "deleted", "UPSTREAM", "NETWORK"}

\* The file on dev was there and is gone
C13_Witness ==
  \E p \in Procs :
    /\ Finished(p, DeleteOp)
    /\ resp[p].status = 200
    /\ sent[p][3] = ApiCall("DELETE contents", "dev", "blob_0")
    /\ github.files["dev"] = Null
    /\ ret[p].val.commit_sha = CommitOf(p)

\* ------------------------------------------------------------------ claims on the creation flows
CreationOps == {RegisterOp, Upload}

\* C14: a slug-uniqueness violation raised by the store carries its own error
\* code, and both creation flows answer it with a 4xx conflict response, not
\* with a 5xx and not by leaving the failure unhandled.
C14_SlugConflictIsAnswered4xx ==
  \A p \in Procs :
    (pc[p] = "done" /\ call[p].op \in CreationOps /\ ret[p].code = "SLUG_EXISTS") =>
      resp[p].status \in 400..499

\* ------------------------------------------------------------------ more claims on the store
SameButDeletedAt(a, b) == \A k \in Fields \ {"deleted_at"} : a[k] = b[k]

\* C15: softDeleteAsset on an active asset sets deleted_at and returns true; on
\* an asset already soft-deleted (a second call) and on an unknown id it returns
\* false and changes nothing, the deleted_at stamp included. restoreAsset
\* returns true and clears deleted_at only if it was set, and otherwise returns
\* false and changes nothing.
C15_SoftDeleteAndRestoreAreIdempotent ==
  \A p \in Procs :
    LET before == Before(p)
        after == getById(call[p].id)
        wasDeleted == before # NoAsset /\ Truthy(before.deleted_at)
        wasActive == before # NoAsset /\ Falsy(before.deleted_at)
    IN /\ Finished(p, "softDeleteAsset") =>
            /\ ~wasActive => ret[p].code = "false"
            /\ ret[p].code = "false" => ~wasActive /\ StoreAsBefore(p)
            /\ ret[p].code = "true" =>
                 /\ wasActive /\ Truthy(after.deleted_at)
                 /\ SameButDeletedAt(after, before) /\ slugs = pre[p].slugs
            /\ wasActive => ret[p].code \in {"true", "WRITE_FAILED"}
       /\ Finished(p, "restoreAsset") =>
            /\ ~wasDeleted => ret[p].code = "false"
            /\ ret[p].code = "false" => ~wasDeleted /\ StoreAsBefore(p)
            /\ ret[p].code = "true" =>
                 /\ wasDeleted /\ after.deleted_at = Null
                 /\ SameButDeletedAt(after, before) /\ slugs = pre[p].slugs
            /\ wasDeleted => ret[p].code \in {"true", "WRITE_FAILED"}

\* The second softDeleteAsset on an asset: false, the first call's stamp stays.
C15_Witness ==
  \E p \in Procs :
    /\ Finished(p, "softDeleteAsset")
    /\ ret[p].code = "false"
    /\ Before(p).deleted_at \in {Stamp(n) : n \in 1..MaxClock}
    /\ getById(call[p].id).deleted_at = Before(p).deleted_at

\* C16: every asset a creation flow persists with disk = github has non-null
\* repo and branch fields, whether it came from registerExisting called with
\* disk = 'github' or from uploadGithubRegister.
C16_GithubAssetsNameRepoAndBranch ==
  \A i \in Ids :
    (Stored(i) /\ getById(i).disk = "github") =>
      ~Nullish(getById(i).repo) /\ ~Nullish(getById(i).branch)

\* listAssets / recentAssets with no filter, newest first
listPage(limit, offset) ==
  listAssets(Undef, Undef, Undef, Undef, FALSE, "created_at", "desc", limit, offset).items
recentPage(limit) == recentAssets(Undef, Undef, Undef, limit)

\* C17: listAssets and recentAssets return at most as many items as the limit
\* clamped to [1,100]: a limit above 100 gives the result of 100, a limit of 0
\* or below gives the result of 1, a negative offset gives the result of 0.
C17_LimitAndOffsetAreClamped ==
  /\ \A limit \in {-1, 0, 1, 2, 100, 150} :
       /\ Len(listPage(limit, 0)) <= Max(1, Min(100, limit))
       /\ Len(recentPage(limit)) <= Max(1, Min(100, limit))
  /\ listPage(150, 0) = listPage(100, 0) /\ recentPage(150) = recentPage(100)
  /\ listPage(0, 0) = listPage(1, 0) /\ recentPage(0) = recentPage(1)
  /\ listPage(-1, 0) = listPage(1, 0) /\ recentPage(-1) = recentPage(1)
  /\ \A limit \in {1, 2} : listPage(limit, -1) = listPage(limit, 0)

\* The slug belonged to a soft-deleted asset other than id when the call of p began
HeldBySoftDeleted(p, slug, id) ==
  \E i \in Ids \ {id} :
    LET a == normalizeAsset(pre[p].assets[i])
    IN a # NoAsset /\ Truthy(a.deleted_at) /\ a.slug = slug

\* C18: a soft-deleted asset's slug stays reserved: insertAsset with that slug
\* and updateAsset of another (active) asset to that slug fail with the slug
\* conflict, so a restoreAsset never leaves two active assets with the same slug.
C18_SoftDeletedSlugStaysReserved ==
  \A p \in Procs :
    /\ (Finished(p, "insertAsset") /\ HeldBySoftDeleted(p, call[p].arg.slug, call[p].id)) =>
         ret[p].code = "SLUG_EXISTS"
    /\ (/\ Finished(p, "updateAsset")
        /\ Before(p) # NoAsset /\ Falsy(Before(p).deleted_at)
        /\ Truthy(call[p].arg.slug)
        /\ HeldBySoftDeleted(p, call[p].arg.slug, call[p].id)) =>
         ret[p].code = "SLUG_EXISTS"
    /\ (Finished(p, "restoreAsset") /\ ret[p].code = "true") =>
         \A j \in Ids \ {call[p].id} :
           Active(j) => getById(j).slug # getById(call[p].id).slug

\* ------------------------------------------------------------------ round trip of a registration
RegisteredFields ==
  {"label", "slug", "filename", "disk", "path", "mime", "size", "sha256",
   "verify_hash", "disposition", "visibility"}

\* C19: after a successful registerExisting, findBySlug on the derived slug
\* returns an asset with the id the registration returned, whose label, slug,
\* filename, disk, path, mime, size, sha256, verify_hash, disposition and
\* visibility equal the values registered; the store adds only created_at,
\* updated_at and deleted_at.
C19_RegisterThenFindBySlug ==
  \A p \in Procs :
    (Finished(p, RegisterOp) /\ resp[p].status = 200) =>
      LET registered == registeredAsset(call[p].id, req[p])
          found == findBySlug(slugify(req[p].slug))
      IN /\ found # NoAsset
         /\ found.id = call[p].id
         /\ \A k \in RegisteredFields : found[k] = registered[k]
         /\ found.created_at \in {Stamp(n) : n \in 1..MaxClock}
         /\ found.updated_at = Null /\ found.deleted_at = Null

\* ------------------------------------------------------------------ claims on the file-backed store
\* C20: in the file-backed store used by a single writer, an insertAsset whose
\* slug equals that of a stored asset is rejected with the slug conflict and
\* not stored, so the assets array never holds two records with the same slug
\* and findBySlug is unambiguous.
C20_FileStoreRejectsDuplicateSlug ==
  /\ \A m, n \in 1..Len(assets) : m # n => assets[m].slug # assets[n].slug
  /\ \A p \in Procs :
       (/\ Finished(p, FileInsertOp)
        /\ fileFindBySlug(pre[p].assets, call[p].arg.slug) # NoAsset) =>
         ret[p].code = "SLUG_EXISTS" /\ assets = pre[p].assets

\* ------------------------------------------------------------------ claims on concurrent store calls
\* C21: whenever no store call is in progress, each entry /slugs/{s} = {id}
\* names a stored asset /assets/{id} whose slug is s, and each stored asset with
\* slug s has /slugs/{s} pointing to its own id, after any interleaving of
\* concurrent insertAsset and updateAsset calls.
C21_SlugIndexConsistent ==
  Quiescent =>
    /\ \A s \in Slugs :
         slugs[s] # Null => Stored(slugs[s]) /\ getById(slugs[s]).slug = s
    /\ \A i \in Ids : Stored(i) => getIdBySlug(getById(i).slug) = i

\* The step in which updateAsset(id, patch) of p writes its record.
UpdateWrites(p) == pc[p] = "upd_set" /\ pc'[p] = "done" /\ ret'[p].code = "asset"

\* C22: while updateAsset calls on one asset interleave with each other and
\* with an insertAsset that claims the slug just released, no state has two
\* active assets with the same slug, and the write of an updateAsset never
\* stores a slug whose /slugs entry is not the asset's own.
C22_ConcurrentUpdatesKeepSlugsUnique ==
  /\ [](\A i, j \in Ids :
          (i # j /\ Active(i) /\ Active(j)) => getById(i).slug # getById(j).slug)
  /\ [][\A p \in Procs :
          UpdateWrites(p) => slugs'[ret'[p].val.slug] = call[p].id]_vars

\* The step in which restoreAsset(id) of p writes, and the one in which a
\* softDeleteAsset or restoreAsset of p writes.
RestoreWrites(p, i) ==
  call[p].op = "restoreAsset" /\ call[p].id = i /\ pc[p] = "res_set" /\ pc'[p] = "done"
FlagWrites(p) == pc[p] \in {"del_set", "res_set"} /\ pc'[p] = "done"

\* C23: a deleted_at that softDeleteAsset has set is cleared by a restoreAsset
\* call on that asset only, also when an updateAsset that read the asset before
\* the delete writes later; and the write of a softDeleteAsset or restoreAsset
\* changes deleted_at only, keeping what an updateAsset completed meanwhile
\* has stored.
C23_SoftDeleteIsStable ==
  /\ [][\A i \in Ids :
          (Stored(i) /\ ~Active(i) /\ Falsy(normalizeAsset(assets'[i]).deleted_at)) =>
            \E p \in Procs : RestoreWrites(p, i)]_vars
  /\ [][\A p \in Procs :
          FlagWrites(p) =>
            SameButDeletedAt(getById(call[p].id), normalizeAsset(assets'[call[p].id]))]_vars

\* ------------------------------------------------------------------ claims on the upload and the store together
\* uploadToGitHub returned its contentUrl: the PUT of request p was accepted
\* and the file is committed.
Committed(p) == Truthy(cur[p].github_url)

\* C24: when an uploadGithubRegister request has ended, either its file was
\* committed to the repository and its asset is stored, or neither: no request
\* ends with the file committed and no asset record.
C24_UploadIsAllOrNothing ==
  \A p \in Procs :
    Finished(p, Upload) =>
      (Committed(p) <=>
         Stored(call[p].id) /\ getById(call[p].id).github_url = cur[p].github_url)

====
